---- MODULE Spec2Model ----
(***************************************************************************)
(* Model of src/main.py: ordering an unordered list of undirected edges    *)
(* into a chain (get_valid_starting_vertex, get_first_edge,                *)
(* get_ordered_edges).                                                     *)
(*                                                                         *)
(* Encoding of Python values:                                              *)
(*   - a vertex is a small non-negative integer, None is the integer -1;   *)
(*   - a tuple is a TLA+ sequence, Python index k is TLA+ index k + 1;     *)
(*   - a frozenset is a TLA+ set;                                          *)
(*   - None returned where a tuple is expected is the empty sequence;      *)
(*   - iterating a set / frozenset of small non-negative ints visits them  *)
(*     in ascending order (hash(v) = v, slot = v mod table size).          *)
(*                                                                         *)
(* The callers' edge lists are lists of pairs of two distinct vertices.    *)
(***************************************************************************)
EXTENDS Integers, Sequences, FiniteSets, TLC

\* Bounds of the model.
MaxEdges == 3
MaxVertex == 3

None == -1
NoneTuple == <<>>
Placeholder == <<None, None>>

Vertices == 0..MaxVertex
\* An edge is a pair of two distinct vertices.
EdgeTuples == {e \in Vertices \X Vertices : e[1] # e[2]}
EdgeLists == UNION {[1..n -> EdgeTuples] : n \in 1..MaxEdges}

VARIABLES edges, start_arg, pc, starting_vertex, first_edge,
          remaining_edges, sorted_edges, i, error, forks

vars == <<edges, start_arg, pc, starting_vertex, first_edge,
          remaining_edges, sorted_edges, i, error, forks>>

----------------------------------------------------------------------------
\* Python built-ins used by the source.

Range(s) == {s[k] : k \in DOMAIN s}

\* Iteration over a set or frozenset: the hash table is walked slot by slot,
\* and a small non-negative int v (hash(v) = v) sits in slot v.
TableSlots == [k \in 1..(MaxVertex + 1) |-> k - 1]
set_iter(S) == SelectSeq(TableSlots, LAMBDA v : v \in S)

\* frozenset(edge)
frozenset(t) == Range(t)

\* t[::-1]
reversed(t) == [k \in 1..Len(t) |-> t[Len(t) + 1 - k]]

\* list.remove(x) left out.
list_remove_noop(l, x) == l

\* list.remove(x) with every equal element dropped instead of the first.
list_remove_all(l, x) == SelectSeq(l, LAMBDA y : y # x)

\* list.remove(x): drops the first element equal to x (x is present).
list_remove(l, x) ==
    LET k == CHOOSE j \in 1..Len(l) : l[j] = x /\ \A h \in 1..(j - 1) : l[h] # x
    IN SubSeq(l, 1, k - 1) \o SubSeq(l, k + 1, Len(l))

\* unlist: [[a, c], [d, b]] -> [a, c, d, b]
unlist(nested_list) ==
    [k \in 1..(2 * Len(nested_list)) |->
        nested_list[(k + 1) \div 2][((k - 1) % 2) + 1]]

----------------------------------------------------------------------------
\* get_valid_starting_vertex

\* vertex_counts.items(): the (vertex, count) pairs in the dict's order, which
\* is the iteration order of set(vertices).
vertex_counts(vertices) ==
    LET keys == set_iter(Range(vertices))
    IN [j \in 1..Len(keys) |->
           <<keys[j], Cardinality({k \in DOMAIN vertices : vertices[k] = keys[j]})>>]

\* [node for node, count in items if ...]
nodes(items) == [j \in 1..Len(items) |-> items[j][1]]

get_forks_gt3(items) == nodes(SelectSeq(items, LAMBDA it : it[2] > 3))

get_forks(items) == nodes(SelectSeq(items, LAMBDA it : it[2] > 2))

get_ends(items) == nodes(SelectSeq(items, LAMBDA it : it[2] = 1))

get_cycles(items) == nodes(SelectSeq(items, LAMBDA it : it[2] = 2))

\* The return statements with the endpoint taken from the vertex list.
select_start_first_vertex(vertices, ends, sv) ==
    IF sv # None THEN sv
    ELSE vertices[1]

\* The return statements with a truthiness test of the starting vertex.
select_start_truthy(vertices, ends, sv) ==
    IF sv # None /\ sv # 0 THEN sv
    ELSE IF Len(ends) > 0 THEN ends[1]
    ELSE vertices[1]

\* The three return statements.
select_start(vertices, ends, sv) ==
    IF sv # None THEN sv
    ELSE IF Len(ends) > 0 THEN ends[1]
    ELSE vertices[1]

\* Result: [err |-> name of the failed assertion or "none", forks, value].
get_valid_starting_vertex(es, sv) ==
    LET vertices == unlist(es)
        items == vertex_counts(vertices)
        fk == get_forks(items)
        ends == get_ends(items)
        cycles == get_cycles(items)
    IN IF sv # None /\ sv \notin Range(vertices)
         THEN [err |-> "VertexNotFound", forks |-> <<>>, value |-> None]
       ELSE IF Len(fk) # 0
         THEN [err |-> "Forked", forks |-> fk, value |-> None]
       ELSE IF ~(Len(ends) = 2 \/ Len(cycles) = Len(items))
         THEN [err |-> "Ambiguous", forks |-> <<>>, value |-> None]
       ELSE IF sv # None /\ Len(ends) > 0 /\ sv \notin Range(ends)
         THEN [err |-> "InvalidStart", forks |-> <<>>, value |-> None]
       ELSE [err |-> "none", forks |-> <<>>,
             value |-> select_start(vertices, ends, sv)]

----------------------------------------------------------------------------
\* get_first_edge

\* The scan without the swap of the second branch.
RECURSIVE first_edge_from_noswap(_, _, _)
first_edge_from_noswap(es, sv, k) ==
    IF k > Len(es) THEN NoneTuple
    ELSE IF es[k][1] = sv THEN es[k]
    ELSE IF es[k][2] = sv THEN es[k]
    ELSE first_edge_from_noswap(es, sv, k + 1)

\* The for loop from position k on; falling off the end returns None.
RECURSIVE first_edge_from(_, _, _)
first_edge_from(es, sv, k) ==
    IF k > Len(es) THEN NoneTuple
    ELSE IF es[k][1] = sv THEN es[k]
    ELSE IF es[k][2] = sv THEN <<es[k][2], es[k][1]>>
    ELSE first_edge_from(es, sv, k + 1)

get_first_edge(es, sv) == first_edge_from(es, sv, 1)

----------------------------------------------------------------------------
\* get_ordered_edges

\* The two branches of the inner loop body with the second storing f_edge.
oriented_forward(edge_set, tail) ==
    LET f_edge == set_iter(edge_set)
        r_edge == reversed(f_edge)
    IN IF f_edge[1] = tail THEN f_edge
       ELSE IF r_edge[1] = tail THEN f_edge
       ELSE NoneTuple

\* The two branches of the inner loop body: the tuple stored, or NoneTuple.
oriented(edge_set, tail) ==
    LET f_edge == set_iter(edge_set)
        r_edge == reversed(f_edge)
    IN IF f_edge[1] = tail THEN f_edge
       ELSE IF r_edge[1] = tail THEN r_edge
       ELSE NoneTuple

\* The inner for loop from position k on: the position of the first
\* remaining edge that matches, 0 if the loop runs out.
RECURSIVE scan_from(_, _, _)
scan_from(rem, tail, k) ==
    IF k > Len(rem) THEN 0
    ELSE IF oriented(rem[k], tail) # NoneTuple THEN k
    ELSE scan_from(rem, tail, k + 1)

scan(rem, tail) == scan_from(rem, tail, 1)

Idle ==
    /\ starting_vertex = None
    /\ first_edge = NoneTuple
    /\ remaining_edges = <<>>
    /\ sorted_edges = <<>>
    /\ i = 0
    /\ error = "none"
    /\ forks = <<>>

\* A call get_ordered_edges(edges, start_arg).
Init ==
    /\ edges \in EdgeLists
    /\ start_arg \in Vertices \cup {None}
    /\ pc = "start"
    /\ Idle

\* Line 102.
Validate ==
    /\ pc = "start"
    /\ LET r == get_valid_starting_vertex(edges, start_arg)
       IN IF r.err # "none"
            THEN /\ pc' = "raised"
                 /\ error' = r.err
                 /\ forks' = r.forks
                 /\ UNCHANGED starting_vertex
            ELSE /\ pc' = "first"
                 /\ starting_vertex' = r.value
                 /\ UNCHANGED <<error, forks>>
    /\ UNCHANGED <<edges, start_arg, first_edge, remaining_edges, sorted_edges, i>>

\* Lines 105-112. (\E over a singleton binds a value that is computed once.)
Begin ==
    /\ pc = "first"
    /\ \E rem \in {[k \in 1..Len(edges) |-> frozenset(edges[k])]} :
       \E fe \in {get_first_edge(edges, starting_vertex)} :
          /\ first_edge' = fe
          /\ sorted_edges' = <<fe>> \o [k \in 1..(Len(edges) - 1) |-> Placeholder]
          /\ IF fe = NoneTuple
               THEN \* frozenset(None)
                    /\ pc' = "raised"
                    /\ error' = "TypeError"
                    /\ remaining_edges' = rem
                    /\ UNCHANGED i
               ELSE /\ pc' = "loop"
                    /\ remaining_edges' = list_remove(rem, frozenset(fe))
                    /\ i' = 1
                    /\ UNCHANGED error
    /\ UNCHANGED <<edges, start_arg, starting_vertex, forks>>

\* One iteration of the outer for loop, lines 115-134.
LoopIter ==
    /\ pc = "loop"
    /\ i < Len(sorted_edges)
    /\ IF Len(sorted_edges[i]) < 2
         THEN \* sorted_edges[i - 1][1] on a 1-tuple
              /\ pc' = "raised"
              /\ error' = "IndexError"
              /\ UNCHANGED <<sorted_edges, remaining_edges, i>>
         ELSE \E tail \in {sorted_edges[i][2]} :
              \E k \in {scan(remaining_edges, tail)} :
                 /\ IF k = 0
                      THEN UNCHANGED <<sorted_edges, remaining_edges>>
                      ELSE \E placed \in {oriented(remaining_edges[k], tail)} :
                           /\ sorted_edges' = [sorted_edges EXCEPT ![i + 1] = placed]
                           /\ remaining_edges' =
                                list_remove(remaining_edges, frozenset(placed))
                 /\ i' = i + 1
                 /\ UNCHANGED <<pc, error>>
    /\ UNCHANGED <<edges, start_arg, starting_vertex, first_edge, forks>>

\* Lines 136-141 with the assertion left out.
FinishUnchecked ==
    /\ pc = "loop"
    /\ i >= Len(sorted_edges)
    /\ pc' = "done"
    /\ UNCHANGED <<edges, start_arg, starting_vertex, first_edge, forks,
                   sorted_edges, remaining_edges, i, error>>

\* Loop exhausted: the final assertion and the return, lines 136-141.
Finish ==
    /\ pc = "loop"
    /\ i >= Len(sorted_edges)
    /\ IF Len(remaining_edges) = 0
         THEN pc' = "done" /\ UNCHANGED error
         ELSE pc' = "raised" /\ error' = "NotAllSorted"
    /\ UNCHANGED <<edges, start_arg, starting_vertex, first_edge, forks,
                   sorted_edges, remaining_edges, i>>

Next == Validate \/ Begin \/ LoopIter \/ Finish

Spec == Init /\ [][Next]_vars

\* get_valid_starting_vertex alone, on the arguments of the call.
NextValidate == Validate

SpecValidate == Init /\ [][NextValidate]_vars

\* The chain builder alone, entered after get_valid_starting_vertex returned.
InitAccepted ==
    /\ edges \in EdgeLists
    \* The fork and end checks of lines 40-49 do not read the starting vertex:
    \* a list accepted with some starting vertex is accepted without one.
    /\ get_valid_starting_vertex(edges, None).err = "none"
    /\ start_arg \in Vertices \cup {None}
    /\ \E r \in {get_valid_starting_vertex(edges, start_arg)} :
          /\ r.err = "none"
          /\ starting_vertex = r.value
    /\ pc = "first"
    /\ first_edge = NoneTuple
    /\ remaining_edges = <<>>
    /\ sorted_edges = <<>>
    /\ i = 0
    /\ error = "none"
    /\ forks = <<>>

NextBuild == Begin \/ LoopIter \/ Finish

\* The function is sequential code: a step that can be taken is taken.
FairSpec == InitAccepted /\ [][NextBuild]_vars /\ WF_vars(NextBuild)

----------------------------------------------------------------------------
\* A direct call get_first_edge(edges, starting_vertex) on arbitrary arguments.

InitFE ==
    /\ edges \in EdgeLists
    /\ start_arg \in Vertices
    /\ pc = "fe_call"
    /\ Idle

CallGetFirstEdge ==
    /\ pc = "fe_call"
    /\ first_edge' = get_first_edge(edges, start_arg)
    /\ starting_vertex' = start_arg
    /\ pc' = "fe_return"
    /\ UNCHANGED <<edges, start_arg, remaining_edges, sorted_edges, i, error, forks>>

NextFE == CallGetFirstEdge

SpecFE == InitFE /\ [][NextFE]_vars

----------------------------------------------------------------------------
\* Graph notions of the input, stated on the edge list alone.

UsedVertices == {edges[k][1] : k \in DOMAIN edges} \cup {edges[k][2] : k \in DOMAIN edges}
Degree(v) ==
    Cardinality({k \in DOMAIN edges : edges[k][1] = v})
        + Cardinality({k \in DOMAIN edges : edges[k][2] = v})
EndVertices == {v \in UsedVertices : Degree(v) = 1}
ForkVertices == {v \in UsedVertices : Degree(v) > 2}
NoSelfLoop == \A k \in 1..Len(edges) : edges[k][1] # edges[k][2]

RECURSIVE Reach(_)
Reach(S) ==
    LET N == S \cup {v \in UsedVertices :
                       \E k \in 1..Len(edges) :
                           /\ v \in {edges[k][1], edges[k][2]}
                           /\ {edges[k][1], edges[k][2]} \cap S # {}}
    IN IF N = S THEN S ELSE Reach(N)

Connected == Reach({edges[1][1]}) = UsedVertices

IsPath ==
    /\ NoSelfLoop
    /\ ForkVertices = {}
    /\ Cardinality(EndVertices) = 2
    /\ Connected

IsCycle ==
    /\ NoSelfLoop
    /\ \A v \in UsedVertices : Degree(v) = 2
    /\ Connected

\* The degree conditions of the validator: no fork, and two ends or none.
PassesDegreeChecks ==
    /\ ForkVertices = {}
    /\ Cardinality(EndVertices) = 2 \/ \A v \in UsedVertices : Degree(v) = 2

ValidatorErrors == {"VertexNotFound", "Forked", "Ambiguous", "InvalidStart"}

\* get_valid_starting_vertex has returned a vertex.
Accepted == pc \in {"first", "loop", "done"} \/ (pc = "raised" /\ error \notin ValidatorErrors)

Returned == pc = "done"

Placed == Cardinality({k \in DOMAIN sorted_edges : sorted_edges[k] # Placeholder})

Chained == \A k \in 1..(Len(sorted_edges) - 1) : sorted_edges[k][2] = sorted_edges[k + 1][1]

EdgeSets == {{u, v} : u, v \in Vertices}
InputCount(S) == Cardinality({k \in DOMAIN edges : {edges[k][1], edges[k][2]} = S})
OutputCount(S) == Cardinality({k \in DOMAIN sorted_edges : Range(sorted_edges[k]) = S})

\* No remaining edge touches the tail although edges remain.
Stuck ==
    /\ pc = "loop"
    /\ i < Len(sorted_edges)
    /\ \A k \in DOMAIN remaining_edges : sorted_edges[i][2] \notin remaining_edges[k]

----------------------------------------------------------------------------
\* C1: on a connected simple path or cycle, with a starting vertex the
\* validator accepts (or none), the call does not fail and returns n oriented
\* edges, none of them the (None, None) placeholder, each ending where the
\* next one starts.
C1_ChainOrdered ==
    /\ (pc = "raised" /\ (IsPath \/ IsCycle)) =>
          start_arg # None /\ error \in {"VertexNotFound", "InvalidStart"}
    /\ (Returned /\ (IsPath \/ IsCycle)) =>
          /\ Len(sorted_edges) = Len(edges)
          /\ \A k \in DOMAIN sorted_edges :
                 sorted_edges[k] # Placeholder /\ Len(sorted_edges[k]) = 2
          /\ Chained

C1_Witness ==
    /\ Returned
    /\ IsPath \/ IsCycle
    /\ Len(edges) >= 3
    /\ \E k \in DOMAIN edges : sorted_edges[k] # edges[k]

\* C2: on a valid path or cycle, duplicates included, the returned edges are,
\* as a multiset of unordered pairs, exactly the input edges.
C2_SameEdgeMultiset ==
    (Returned /\ (IsPath \/ IsCycle)) =>
        \A S \in EdgeSets : OutputCount(S) = InputCount(S)

C2_Witness ==
    /\ Returned
    /\ IsCycle
    /\ Len(edges) = 2
    /\ InputCount({edges[1][1], edges[1][2]}) = 2

\* C3: on a simple cycle, with no starting vertex or any vertex of the cycle,
\* the call returns, the result starts at the resolved starting vertex and
\* its last edge ends there.
C3_CycleCloses ==
    /\ (pc = "raised" /\ IsCycle) => start_arg # None /\ start_arg \notin UsedVertices
    /\ (Returned /\ IsCycle) =>
          /\ starting_vertex = (IF start_arg # None THEN start_arg ELSE edges[1][1])
          /\ sorted_edges[1][1] = starting_vertex
          /\ sorted_edges[Len(sorted_edges)][2] = sorted_edges[1][1]

C3_Witness ==
    /\ Returned
    /\ IsCycle
    /\ Len(edges) >= 3
    /\ start_arg # None
    /\ start_arg # edges[1][1]

\* C4 as stated: whenever a vertex has degree > 2 the call fails with the
\* fork error listing exactly those vertices, whatever the starting vertex.
C4_ForkAlwaysReported ==
    (pc # "start" /\ ForkVertices # {}) =>
        /\ pc = "raised"
        /\ error = "Forked"
        /\ Range(forks) = ForkVertices

\* C4 amended: the same, for a starting vertex that is absent or occurs among
\* the endpoints; one that does not occur fails with vertex-not-found first.
C4_ForkReported ==
    (pc # "start" /\ ForkVertices # {}) =>
        /\ pc = "raised"
        /\ IF start_arg = None \/ start_arg \in UsedVertices
             THEN /\ error = "Forked"
                  /\ Range(forks) = ForkVertices
                  /\ Len(forks) = Cardinality(ForkVertices)
             ELSE error = "VertexNotFound"

C4_Witness ==
    /\ pc = "raised"
    /\ error = "Forked"
    /\ start_arg # None
    /\ ForkVertices # {}
    /\ ForkVertices # UsedVertices

\* C5: with a starting vertex supplied and the degree checks passed, the
\* vertex is accepted and returned unchanged exactly when it occurs among the
\* endpoints and is an end or there is no end; otherwise the call fails with
\* vertex-not-found, respectively invalid-start. Vertex 0 is no exception.
C5_StartVertexAccepted ==
    (pc # "start" /\ start_arg # None /\ PassesDegreeChecks) =>
        IF start_arg \in UsedVertices /\ (EndVertices = {} \/ start_arg \in EndVertices)
          THEN Accepted /\ starting_vertex = start_arg
          ELSE /\ pc = "raised"
               /\ error = (IF start_arg \notin UsedVertices
                             THEN "VertexNotFound" ELSE "InvalidStart")

C5_Witness ==
    /\ Accepted
    /\ start_arg = 0
    /\ starting_vertex = 0
    /\ EndVertices = {}
    /\ edges[1][1] # 0

\* C6: the call returns only if every position holds an input edge; when the
\* chain cannot be continued although edges remain it fails and returns
\* nothing.
C6_NoPartialResult ==
    /\ Returned =>
          /\ Len(sorted_edges) = Len(edges)
          /\ Len(remaining_edges) = 0
          /\ \A k \in DOMAIN sorted_edges :
                /\ sorted_edges[k] # Placeholder
                /\ InputCount(Range(sorted_edges[k])) > 0
    /\ Returned => Connected
    /\ (pc = "raised" /\ error = "NotAllSorted") =>
          Len(remaining_edges) > 0 /\ Placed < Len(edges)

C6_Witness ==
    /\ pc = "raised"
    /\ error = "NotAllSorted"
    /\ NoSelfLoop
    /\ ~Connected
    /\ Placed < Len(edges)

\* C7 as stated: whenever the validator returns a vertex the edges are a
\* connected simple path or cycle, and the chain builder is never at a step
\* where edges remain but none touches the tail.
C7_ValidatorComplete ==
    Accepted =>
        /\ IsPath \/ IsCycle
        /\ ~Stuck

\* C8 as stated: with no starting vertex, on a path, the resolved vertex is
\* the degree-1 vertex that comes first in the flattened endpoint sequence.
FirstEndInInput ==
    LET vs == unlist(edges)
        k == CHOOSE j \in DOMAIN vs :
                 /\ Degree(vs[j]) = 1
                 /\ \A h \in 1..(j - 1) : Degree(vs[h]) # 1
    IN vs[k]

C8_FirstEndInInputOrder ==
    (Accepted /\ start_arg = None /\ EndVertices # {}) =>
        starting_vertex = FirstEndInInput

\* C8 amended: the resolved vertex is a degree-1 vertex, the one that comes
\* first when the set of distinct vertices is iterated: the smaller of the two
\* ends for small non-negative integers.
C8_FirstEndInSetOrder ==
    (Accepted /\ start_arg = None /\ EndVertices # {}) =>
        /\ starting_vertex \in EndVertices
        /\ \A v \in EndVertices : starting_vertex <= v

C8_Witness ==
    /\ Accepted
    /\ start_arg = None
    /\ Cardinality(EndVertices) = 2
    /\ starting_vertex # FirstEndInInput
    /\ starting_vertex # edges[1][1]

\* C9 as stated: get_first_edge never completes normally without returning an
\* oriented edge whose first component is the starting vertex.
C9_FirstEdgeChecked ==
    pc = "fe_return" =>
        /\ first_edge # NoneTuple
        /\ first_edge[1] = start_arg

\* C10: the chain-building loop terminates; it makes |edges| - 1 iterations,
\* an iteration removes one remaining edge exactly when it places one and
\* none otherwise, and placed plus remaining edges is always |edges|.
C10_PlacedPlusRemaining ==
    (pc \in {"loop", "done"} \/ (pc = "raised" /\ error = "NotAllSorted")) =>
        /\ Placed + Len(remaining_edges) = Len(edges)
        /\ i \in 1..Len(edges)
        /\ pc # "loop" => i = Len(edges)

C10_IterationStep ==
    (pc = "loop" /\ pc' = "loop") =>
        /\ i' = i + 1
        /\ \/ /\ Len(remaining_edges') = Len(remaining_edges) - 1
              /\ sorted_edges[i + 1] = Placeholder
              /\ sorted_edges'[i + 1] # Placeholder
           \/ UNCHANGED <<remaining_edges, sorted_edges>>

C10_LoopTerminates ==
    /\ []C10_PlacedPlusRemaining
    /\ [][C10_IterationStep]_vars
    /\ (pc = "first") ~> (pc \in {"done", "raised"})

C10_Witness ==
    /\ Returned
    /\ Len(edges) >= 3
    /\ i = Len(edges)
    /\ Len(remaining_edges) = 0

====
